---- MODULE Spec2Model ----
(***************************************************************************)
(* A model of the error-translation layer (hyperscan/src/errors.rs), the   *)
(* platform descriptor and its owned handle (hyperscan/src/compile/        *)
(* platform.rs) and the build script (hyperscan-sys/build.rs) of           *)
(* rust-hyperscan.                                                         *)
(*                                                                         *)
(* Three specifications share the variables:                               *)
(*   SpecErrors    calls of HsError::from and of the AsResult adapters     *)
(*   SpecPlatform  Platform::new / Platform::host / drop of a Platform     *)
(*   SpecBuild     one run of the build script's main                      *)
(***************************************************************************)
EXTENDS Integers, Sequences, FiniteSets, TLC

VARIABLES
    call,       \* errors.rs: the most recent conversion call and what it returned
    prevCall,   \* errors.rs: the conversion call before it
    heap,       \* platform.rs: the boxed hs_platform_info_t cells, by address
    nextPtr,    \* platform.rs: the address the allocator hands out next
    owners,     \* platform.rs: addresses held by live Platform values
    freeCalls,  \* platform.rs: invocations of free_platform_info, by address
    lastCtor,   \* platform.rs: the most recent Platform::new / Platform::host
    bpc,        \* build.rs: position of main
    cfg,        \* build.rs: cargo features, target and environment of the run
    emitted,    \* build.rs: cargo directives written so far, in order
    probes,     \* build.rs: pkg-config probes made so far, in order
    incDir,     \* build.rs: what find_hyperscan returned
    ran         \* build.rs: the steps of main run so far, with their outcome

vars ==
    << call, prevCall, heap, nextPtr, owners, freeCalls, lastCtor,
       bpc, cfg, emitted, probes, incDir, ran >>

errVars == << call, prevCall >>

platVars == << heap, nextPtr, owners, freeCalls, lastCtor >>

buildVars == << bpc, cfg, emitted, probes, incDir, ran >>

(***************************************************************************)
(* Native status codes of the ffi module.  errors.rs names them; the       *)
(* values are those of the native header hs_common.h, from which the       *)
(* bindings are generated.                                                 *)
(***************************************************************************)
HS_SUCCESS == 0

HS_INVALID == -1

HS_NOMEM == -2

HS_SCAN_TERMINATED == -3

HS_COMPILER_ERROR == -4

HS_DB_VERSION_ERROR == -5

HS_DB_PLATFORM_ERROR == -6

HS_DB_MODE_ERROR == -7

HS_BAD_ALIGN == -8

HS_BAD_ALLOC == -9

HS_SCRATCH_IN_USE == -10

HS_ARCH_ERROR == -11

HS_INSUFFICIENT_SPACE == -12

HS_UNKNOWN_ERROR == -13

(***************************************************************************)
(* Bounds of the status codes a native call is taken to return:            *)
(* -MaxNegCode .. MaxPosCode.  The range holds the success code, the       *)
(* thirteen codes the native header names and codes it does not name, on   *)
(* both sides of zero.                                                     *)
(***************************************************************************)
MaxNegCode == 15

MaxPosCode == 2

StatusCodes == (0 - MaxNegCode) .. MaxPosCode

\* The codes the match of HsError::from has an arm for.
RecognizedCodes ==
    { HS_INVALID, HS_NOMEM, HS_SCAN_TERMINATED, HS_DB_VERSION_ERROR,
      HS_DB_PLATFORM_ERROR, HS_DB_MODE_ERROR, HS_BAD_ALIGN, HS_BAD_ALLOC,
      HS_SCRATCH_IN_USE, HS_ARCH_ERROR, HS_INSUFFICIENT_SPACE,
      HS_UNKNOWN_ERROR }

(***************************************************************************)
(* enum HsError: thirteen unit-like or payload variants and Code(raw).     *)
(* A value is a record; raw is the payload of Code and 0 elsewhere.        *)
(***************************************************************************)
Variant(k) == [kind |-> k, raw |-> 0]

Code(err) == [kind |-> "Code", raw |-> err]

HsErrorKinds ==
    { "Invalid", "NoMem", "ScanTerminated", "CompileError", "DbVersionError",
      "DbPlatformError", "DbModeError", "BadAlign", "BadAlloc",
      "ScratchInUse", "ArchError", "InsufficientSpace", "UnknownError",
      "Code" }

\* A from that sends the compiler-error code to UnknownError.
HsErrorFromCompilerAsUnknown(err) ==
    IF err = HS_COMPILER_ERROR THEN Variant("UnknownError")
    ELSE IF err = HS_INVALID THEN Variant("Invalid")
    ELSE IF err = HS_NOMEM THEN Variant("NoMem")
    ELSE IF err = HS_SCAN_TERMINATED THEN Variant("ScanTerminated")
    ELSE IF err = HS_DB_VERSION_ERROR THEN Variant("DbVersionError")
    ELSE IF err = HS_DB_PLATFORM_ERROR THEN Variant("DbPlatformError")
    ELSE IF err = HS_DB_MODE_ERROR THEN Variant("DbModeError")
    ELSE IF err = HS_BAD_ALIGN THEN Variant("BadAlign")
    ELSE IF err = HS_BAD_ALLOC THEN Variant("BadAlloc")
    ELSE IF err = HS_SCRATCH_IN_USE THEN Variant("ScratchInUse")
    ELSE IF err = HS_ARCH_ERROR THEN Variant("ArchError")
    ELSE IF err = HS_INSUFFICIENT_SPACE THEN Variant("InsufficientSpace")
    ELSE IF err = HS_UNKNOWN_ERROR THEN Variant("UnknownError")
    ELSE Code(err)

\* A from with one arm's variant pasted from the next arm.
HsErrorFromSwappedArms(err) ==
    IF err = HS_INVALID THEN Variant("Invalid")
    ELSE IF err = HS_NOMEM THEN Variant("NoMem")
    ELSE IF err = HS_SCAN_TERMINATED THEN Variant("ScanTerminated")
    ELSE IF err = HS_DB_VERSION_ERROR THEN Variant("DbVersionError")
    ELSE IF err = HS_DB_PLATFORM_ERROR THEN Variant("DbModeError")
    ELSE IF err = HS_DB_MODE_ERROR THEN Variant("DbModeError")
    ELSE IF err = HS_BAD_ALIGN THEN Variant("BadAlign")
    ELSE IF err = HS_BAD_ALLOC THEN Variant("BadAlloc")
    ELSE IF err = HS_SCRATCH_IN_USE THEN Variant("ScratchInUse")
    ELSE IF err = HS_ARCH_ERROR THEN Variant("ArchError")
    ELSE IF err = HS_INSUFFICIENT_SPACE THEN Variant("InsufficientSpace")
    ELSE IF err = HS_UNKNOWN_ERROR THEN Variant("UnknownError")
    ELSE Code(err)

\* A from whose catch-all arm loses the raw value.
HsErrorFromDropsRaw(err) ==
    IF err = HS_INVALID THEN Variant("Invalid")
    ELSE IF err = HS_NOMEM THEN Variant("NoMem")
    ELSE IF err = HS_SCAN_TERMINATED THEN Variant("ScanTerminated")
    ELSE IF err = HS_DB_VERSION_ERROR THEN Variant("DbVersionError")
    ELSE IF err = HS_DB_PLATFORM_ERROR THEN Variant("DbPlatformError")
    ELSE IF err = HS_DB_MODE_ERROR THEN Variant("DbModeError")
    ELSE IF err = HS_BAD_ALIGN THEN Variant("BadAlign")
    ELSE IF err = HS_BAD_ALLOC THEN Variant("BadAlloc")
    ELSE IF err = HS_SCRATCH_IN_USE THEN Variant("ScratchInUse")
    ELSE IF err = HS_ARCH_ERROR THEN Variant("ArchError")
    ELSE IF err = HS_INSUFFICIENT_SPACE THEN Variant("InsufficientSpace")
    ELSE IF err = HS_UNKNOWN_ERROR THEN Variant("UnknownError")
    ELSE IF err < 0 THEN Variant("UnknownError")
    ELSE Code(0)

\* impl From<ffi::hs_error_t> for HsError: the match, arm by arm, in order.
\* The arm for HS_COMPILER_ERROR is commented out in the source, so that
\* code falls to the catch-all arm.
HsErrorFrom(err) ==
    IF err = HS_INVALID THEN Variant("Invalid")
    ELSE IF err = HS_NOMEM THEN Variant("NoMem")
    ELSE IF err = HS_SCAN_TERMINATED THEN Variant("ScanTerminated")
    ELSE IF err = HS_DB_VERSION_ERROR THEN Variant("DbVersionError")
    ELSE IF err = HS_DB_PLATFORM_ERROR THEN Variant("DbPlatformError")
    ELSE IF err = HS_DB_MODE_ERROR THEN Variant("DbModeError")
    ELSE IF err = HS_BAD_ALIGN THEN Variant("BadAlign")
    ELSE IF err = HS_BAD_ALLOC THEN Variant("BadAlloc")
    ELSE IF err = HS_SCRATCH_IN_USE THEN Variant("ScratchInUse")
    ELSE IF err = HS_ARCH_ERROR THEN Variant("ArchError")
    ELSE IF err = HS_INSUFFICIENT_SPACE THEN Variant("InsufficientSpace")
    ELSE IF err = HS_UNKNOWN_ERROR THEN Variant("UnknownError")
    ELSE Code(err)

(***************************************************************************)
(* Result<T, failure::Error>.  `.into()` boxes the HsError into a          *)
(* failure::Error, which keeps the value as its cause (fail).              *)
(***************************************************************************)
IntoError(e) == [fail |-> e]

OkOf(v) == [tag |-> "Ok", val |-> v, err |-> IntoError(Variant("none"))]

ErrOf(e) == [tag |-> "Err", val |-> "none", err |-> e]

\* An ok() without the test for the success code.
AsResultOkNoSuccessTest(code) == ErrOf(IntoError(HsErrorFrom(code)))

\* An ok() that treats every non-negative code as success.
AsResultOkSignTest(code) ==
    IF code >= HS_SUCCESS THEN OkOf("unit")
    ELSE ErrOf(IntoError(HsErrorFrom(code)))

\* impl AsResult for ffi::hs_error_t: ok().
AsResultOk(code) ==
    IF code = HS_SUCCESS THEN OkOf("unit")
    ELSE ErrOf(IntoError(HsErrorFrom(code)))

(***************************************************************************)
(* core::result::Result::map / and_then / expect, as the default methods   *)
(* of AsResult use them.  The continuation op takes the unit of Ok(()), so *)
(* it is given by the value it returns; opRuns counts its invocations.     *)
(***************************************************************************)
ResultMap(r, u) ==
    IF r.tag = "Ok" THEN [res |-> OkOf(u), opRuns |-> 1, panicked |-> FALSE]
    ELSE [res |-> r, opRuns |-> 0, panicked |-> FALSE]

ResultAndThen(r, opRes) ==
    IF r.tag = "Ok" THEN [res |-> opRes, opRuns |-> 1, panicked |-> FALSE]
    ELSE [res |-> r, opRuns |-> 0, panicked |-> FALSE]

ResultExpect(r) ==
    IF r.tag = "Ok" THEN [res |-> r, opRuns |-> 0, panicked |-> FALSE]
    ELSE [res |-> r, opRuns |-> 0, panicked |-> TRUE]

\* A map that runs the continuation before looking at the status.
AsResultMapEager(code, u) ==
    [res |-> IF code = HS_SUCCESS THEN OkOf(u) ELSE AsResultOk(code),
     opRuns |-> 1, panicked |-> FALSE]

\* AsResult::map: self.ok().map(op)
AsResultMap(code, u) == ResultMap(AsResultOk(code), u)

\* AsResult::and_then: self.ok().and_then(op)
AsResultAndThen(code, opRes) == ResultAndThen(AsResultOk(code), opRes)

\* AsResult::expect: self.ok().expect(msg)
AsResultExpect(code) == ResultExpect(AsResultOk(code))

\* What a continuation passed to map may return.
OpValues == { "u1", "u2" }

\* What a continuation passed to and_then may return.
OpResults ==
    { OkOf(u) : u \in OpValues }
        \cup { ErrOf(IntoError(Variant("Invalid"))),
               ErrOf(IntoError(Code(7))) }

NoHsError == Variant("none")

NoCall ==
    [fn |-> "none", code |-> 0, op |-> "none", hs |-> NoHsError,
     res |-> OkOf("none"), opRuns |-> 0, panicked |-> FALSE]

\* A caller converts a status code with HsError::from.
CallFrom ==
    \E code \in StatusCodes :
        /\ call' = [fn |-> "from", code |-> code, op |-> "none",
                    hs |-> HsErrorFrom(code),
                    res |-> OkOf("none"), opRuns |-> 0, panicked |-> FALSE]
        /\ prevCall' = call
        /\ UNCHANGED << platVars, buildVars >>

\* A caller applies ok() to a status code.
CallOk ==
    \E code \in StatusCodes :
        /\ call' = [fn |-> "ok", code |-> code, op |-> "none",
                    hs |-> NoHsError,
                    res |-> AsResultOk(code), opRuns |-> 0,
                    panicked |-> FALSE]
        /\ prevCall' = call
        /\ UNCHANGED << platVars, buildVars >>

\* A caller applies map(op) to a status code; op returns u.
CallMap ==
    \E code \in StatusCodes, u \in OpValues :
        /\ call' = [fn |-> "map", code |-> code, op |-> u,
                    hs |-> NoHsError,
                    res |-> AsResultMap(code, u).res,
                    opRuns |-> AsResultMap(code, u).opRuns,
                    panicked |-> AsResultMap(code, u).panicked]
        /\ prevCall' = call
        /\ UNCHANGED << platVars, buildVars >>

\* A caller applies and_then(op) to a status code; op returns opRes.
CallAndThen ==
    \E code \in StatusCodes, opRes \in OpResults :
        /\ call' = [fn |-> "and_then", code |-> code, op |-> opRes,
                    hs |-> NoHsError,
                    res |-> AsResultAndThen(code, opRes).res,
                    opRuns |-> AsResultAndThen(code, opRes).opRuns,
                    panicked |-> AsResultAndThen(code, opRes).panicked]
        /\ prevCall' = call
        /\ UNCHANGED << platVars, buildVars >>

\* A caller applies expect(msg) to a status code.
CallExpect ==
    \E code \in StatusCodes :
        /\ call' = [fn |-> "expect", code |-> code, op |-> "none",
                    hs |-> NoHsError,
                    res |-> AsResultExpect(code).res,
                    opRuns |-> AsResultExpect(code).opRuns,
                    panicked |-> AsResultExpect(code).panicked]
        /\ prevCall' = call
        /\ UNCHANGED << platVars, buildVars >>

(***************************************************************************)
(* platform.rs.  Tune is a #[repr(u32)] enum whose discriminants are the   *)
(* ffi::HS_TUNE_FAMILY_* constants; CpuFeatures is a bitflags struct over  *)
(* u64 whose flags are the ffi::HS_CPU_FEATURES_* constants.  The values   *)
(* are those of the native header hs_compile.h.                            *)
(***************************************************************************)
HS_TUNE_FAMILY_GENERIC == 0

HS_TUNE_FAMILY_SNB == 1

HS_TUNE_FAMILY_IVB == 2

HS_TUNE_FAMILY_HSW == 3

HS_TUNE_FAMILY_SLM == 4

HS_TUNE_FAMILY_BDW == 5

HS_TUNE_FAMILY_SKL == 6

HS_TUNE_FAMILY_SKX == 7

HS_TUNE_FAMILY_GLM == 8

HS_CPU_FEATURES_AVX2 == 4

HS_CPU_FEATURES_AVX512 == 8

Tune ==
    { "Generic", "SandyBridge", "IvyBridge", "Haswell", "Silvermont",
      "Broadwell", "Skylake", "SkylakeServer", "Goldmont" }

\* `tune as u32`: the discriminant of the variant.
TuneAsU32(t) ==
    CASE t = "Generic" -> HS_TUNE_FAMILY_GENERIC
      [] t = "SandyBridge" -> HS_TUNE_FAMILY_SNB
      [] t = "IvyBridge" -> HS_TUNE_FAMILY_IVB
      [] t = "Haswell" -> HS_TUNE_FAMILY_HSW
      [] t = "Silvermont" -> HS_TUNE_FAMILY_SLM
      [] t = "Broadwell" -> HS_TUNE_FAMILY_BDW
      [] t = "Skylake" -> HS_TUNE_FAMILY_SKL
      [] t = "SkylakeServer" -> HS_TUNE_FAMILY_SKX
      [] t = "Goldmont" -> HS_TUNE_FAMILY_GLM

\* Bitwise OR and AND of two naturals, bit by bit.
RECURSIVE BitOr(_, _)
BitOr(a, b) ==
    IF a = 0 THEN b
    ELSE IF b = 0 THEN a
    ELSE (IF a % 2 = 1 \/ b % 2 = 1 THEN 1 ELSE 0)
             + 2 * BitOr(a \div 2, b \div 2)

RECURSIVE BitAnd(_, _)
BitAnd(a, b) ==
    IF a = 0 \/ b = 0 THEN 0
    ELSE (IF a % 2 = 1 /\ b % 2 = 1 THEN 1 ELSE 0)
             + 2 * BitAnd(a \div 2, b \div 2)

CpuFeatureFlags == { "AVX2", "AVX512" }

FlagBits(f) ==
    CASE f = "AVX2" -> HS_CPU_FEATURES_AVX2
      [] f = "AVX512" -> HS_CPU_FEATURES_AVX512

\* A CpuFeatures value is built by OR-ing named flags: the set of the flags
\* that were OR-ed stands for it.
CpuFeatures == SUBSET CpuFeatureFlags

\* CpuFeatures::bits(): the OR of the flags of the value.
RECURSIVE CpuFeaturesBits(_)
CpuFeaturesBits(fs) ==
    IF fs = {} THEN 0
    ELSE LET f == CHOOSE x \in fs : TRUE
         IN BitOr(FlagBits(f), CpuFeaturesBits(fs \ { f }))

\* CpuFeatures::contains(flag) on raw bits: (bits & flag) == flag.
BitsContain(bits, f) == BitAnd(bits, FlagBits(f)) = FlagBits(f)

\* ffi::hs_platform_info_t
PlatformInfo(tune, cpu_features, reserved1, reserved2) ==
    [tune |-> tune, cpu_features |-> cpu_features,
     reserved1 |-> reserved1, reserved2 |-> reserved2]

\* MaybeUninit::zeroed()
ZeroedInfo == PlatformInfo(0, 0, 0, 0)

\* A literal that writes the feature bits into the wrong field.
NewPlatformInfoMisplaced(tune, cpu_features) ==
    PlatformInfo(TuneAsU32(tune), 0, CpuFeaturesBits(cpu_features), 0)

\* The struct literal of Platform::new.
NewPlatformInfo(tune, cpu_features) ==
    PlatformInfo(TuneAsU32(tune), CpuFeaturesBits(cpu_features), 0, 0)

(***************************************************************************)
(* The heap of boxed hs_platform_info_t.  An address is handed out once    *)
(* (it stands for the allocation); NULL is no address.                     *)
(***************************************************************************)
MaxAllocs == 2

Ptrs == 1 .. MaxAllocs

NULL == 0

Unallocated == [state |-> "unalloc", info |-> ZeroedInfo]

Freed == [state |-> "freed", info |-> ZeroedInfo]

Live(info) == [state |-> "live", info |-> info]

\* What hs_populate_platform may write for the host when it succeeds.
HostInfos ==
    { PlatformInfo(TuneAsU32(t), CpuFeaturesBits(fs), 0, 0) :
        t \in Tune, fs \in CpuFeatures }

\* What the local may hold when hs_populate_platform fails: still zeroed, or
\* written in part.
FailedInfos == { ZeroedInfo, PlatformInfo(HS_TUNE_FAMILY_HSW, 0, 0, 0) }

\* The statuses hs_populate_platform is taken to return: success, three of
\* the codes HsError::from has an arm for, and one it has none for.
HostStatuses == { HS_SUCCESS, HS_INVALID, HS_NOMEM, HS_ARCH_ERROR, 1 }

NoCtor ==
    [fn |-> "none", tune |-> "none", features |-> {}, status |-> 0,
     populated |-> ZeroedInfo, tag |-> "none", ptr |-> NULL,
     err |-> IntoError(NoHsError)]

\* Box::into_raw(Box::new(info)) followed by Platform::from_ptr: the cell at
\* the next address holds info and a Platform value owns the address.
BoxAndOwn(info) ==
    /\ nextPtr \in Ptrs
    /\ heap' = [heap EXCEPT ![nextPtr] = Live(info)]
    /\ owners' = owners \cup { nextPtr }
    /\ nextPtr' = nextPtr + 1
    /\ UNCHANGED freeCalls

\* Platform::new(tune, cpu_features)
PlatformNew ==
    \E tune \in Tune, cpu_features \in CpuFeatures :
        /\ BoxAndOwn(NewPlatformInfo(tune, cpu_features))
        /\ lastCtor' =
               [fn |-> "new", tune |-> tune, features |-> cpu_features,
                status |-> HS_SUCCESS, populated |-> ZeroedInfo,
                tag |-> "Ok", ptr |-> nextPtr, err |-> IntoError(NoHsError)]
        /\ UNCHANGED << errVars, buildVars >>

\* Platform::host(): hs_populate_platform writes into the zeroed local and
\* returns a status; map runs the closure, which boxes the local, only on
\* success.
PlatformHost ==
    \E status \in HostStatuses :
      \E written \in IF status = HS_SUCCESS THEN HostInfos ELSE FailedInfos :
        LET r == AsResultMap(status, "platform") IN
        /\ IF r.opRuns = 1
              THEN BoxAndOwn(written)
              ELSE UNCHANGED << heap, nextPtr, owners, freeCalls >>
        /\ lastCtor' =
               [fn |-> "host", tune |-> "none", features |-> {},
                status |-> status,
                populated |-> IF status = HS_SUCCESS THEN written
                              ELSE ZeroedInfo,
                tag |-> r.res.tag,
                ptr |-> IF r.opRuns = 1 THEN nextPtr ELSE NULL,
                err |-> r.res.err]
        /\ UNCHANGED << errVars, buildVars >>

\* A release that forgets the box instead of dropping it.
FreePlatformInfoLeak(p) ==
    /\ UNCHANGED << heap, freeCalls >>

\* free_platform_info(p): mem::drop(Box::from_raw(p))
FreePlatformInfo(p) ==
    /\ freeCalls' = [freeCalls EXCEPT ![p] = @ + 1]
    /\ heap' = [heap EXCEPT ![p] = Freed]

\* A Platform value goes out of scope: the Drop impl that foreign_type!
\* generates calls free_platform_info on the pointer the value holds.  The
\* value is gone afterwards (Platform is neither Clone nor Copy).
DropPlatform ==
    \E p \in owners :
        /\ FreePlatformInfo(p)
        /\ owners' = owners \ { p }
        /\ UNCHANGED << nextPtr, lastCtor, errVars, buildVars >>

(***************************************************************************)
(* hyperscan-sys/build.rs.  cfg holds what a run is given: the cargo       *)
(* features and the pointer width of the target, whether HYPERSCAN_ROOT    *)
(* is unset, set to a valid Unicode value or set to a value that is not    *)
(* valid Unicode, what the path it names and its lib subdirectory are on   *)
(* disk, and whether OUT_DIR is set.                                       *)
(***************************************************************************)
PathKinds == { "missing", "file", "dir" }

RootVars == { "unset", "unicode", "not_unicode" }

Configs ==
    { c \in [static : BOOLEAN, compile : BOOLEAN, runtime : BOOLEAN,
             chimera : BOOLEAN, gen : BOOLEAN, ptr64 : BOOLEAN,
             rootVar : RootVars, rootKind : PathKinds, libKind : PathKinds,
             outDirSet : BOOLEAN] :
        \* generate_chimera_binding has no definition for a target that is
        \* not 64-bit without the chimera feature: that script does not build
        /\ c.ptr64 \/ c.chimera
        \* no path is named when the variable is unset
        /\ c.rootVar = "unset" => c.rootKind = "missing" /\ c.libKind = "missing"
        \* a subdirectory exists only in a directory
        /\ c.rootKind # "dir" => c.libKind = "missing" }

Directive(k, v) == [kind |-> k, value |-> v]

RootIncPath == "$HYPERSCAN_ROOT/include/hs"

PkgIncPath == "libhs.include_paths[0]"

\* env::var("HYPERSCAN_ROOT"): Ok only for a variable that is set and whose
\* value is valid Unicode.
EnvVarRootIsOk(c) == c.rootVar = "unicode"

\* Path::exists / Path::is_dir
Exists(kind) == kind # "missing"

IsDir(kind) == kind = "dir"

\* link_kind
LinkKind(c) == IF c.static THEN "static" ELSE "dylib"

\* link_libs, as the pushes build it.
LinkLibs(c) ==
    (IF ~c.compile /\ c.runtime
        THEN << "static=hs_runtime" >>
        ELSE << (IF LinkKind(c) = "static" THEN "static=hs" ELSE "dylib=hs") >>
                 \o (IF c.static THEN << "c++" >> ELSE << >>))
        \o (IF c.chimera THEN << "chimera", "pcre" >> ELSE << >>)

FindOk(path, out, probed) ==
    [ok |-> TRUE, path |-> path, out |-> out, probed |-> probed]

FindErr(msg, out, probed) ==
    [ok |-> FALSE, path |-> msg, out |-> out, probed |-> probed]

RerunIfRootChanged == Directive("rerun-if-env-changed", "HYPERSCAN_ROOT")

\* The HYPERSCAN_ROOT branch of find_hyperscan.
FindInRoot(c) ==
    IF ~Exists(c.rootKind) \/ ~IsDir(c.rootKind)
    THEN FindErr("HYPERSCAN_ROOT should point to a directory that exists.",
                 << RerunIfRootChanged >>, << >>)
    ELSE IF Exists(c.libKind) /\ IsDir(c.libKind)
    THEN FindOk(RootIncPath,
                << RerunIfRootChanged,
                   Directive("rustc-link-search", "native=$HYPERSCAN_ROOT/lib"),
                   Directive("warning", "building with Hyperscan") >>
                    \o [i \in 1 .. Len(LinkLibs(c)) |->
                            Directive("rustc-link-lib", LinkLibs(c)[i])],
                << >>)
    ELSE FindErr("$HYPERSCAN_ROOT/lib subdirectory not found.",
                 << RerunIfRootChanged >>, << >>)

\* What a pkg-config probe may answer: not found, found without an include
\* path, found with one.
ProbeAnswers == { "fail", "no_include", "found" }

\* The metadata a successful probe prints (cargo_metadata(true)).
ProbeMetadata(lib) ==
    << Directive("rustc-link-search", "native=pkg-config"),
       Directive("rustc-link-lib", lib) >>

\* The pkg-config branch of find_hyperscan; hs and ch are what the probes of
\* libhs and libch answer.
FindByPkgConfig(c, hs, ch) ==
    IF hs = "fail"
    THEN FindErr("probe libhs", << RerunIfRootChanged >>, << "libhs" >>)
    ELSE LET out1 == << RerunIfRootChanged >> \o ProbeMetadata("hs")
                        \o << Directive("warning", "building with Hyperscan") >>
         IN IF c.chimera /\ ch = "fail"
            THEN FindErr("probe libch", out1, << "libhs", "libch" >>)
            ELSE LET out2 == IF c.chimera
                                THEN out1 \o ProbeMetadata("ch")
                                       \o << Directive("warning",
                                                       "building with Chimera") >>
                                ELSE out1
                     probed == IF c.chimera THEN << "libhs", "libch" >>
                               ELSE << "libhs" >>
                 IN IF hs = "no_include"
                    THEN FindErr("missing include path", out2, probed)
                    ELSE FindOk(PkgIncPath, out2, probed)

\* A find_hyperscan that falls back to pkg-config when the root is unusable.
FindHyperscanFallback(c, hs, ch) ==
    IF EnvVarRootIsOk(c) /\ FindInRoot(c).ok THEN FindInRoot(c)
    ELSE FindByPkgConfig(c, hs, ch)

\* find_hyperscan()
FindHyperscan(c, hs, ch) ==
    IF EnvVarRootIsOk(c) THEN FindInRoot(c)
    ELSE FindByPkgConfig(c, hs, ch)

Step(name, ok) == [step |-> name, ok |-> ok]

\* main: find_hyperscan().with_context(..)?
MainFind ==
    /\ bpc = "start"
    /\ \E hs \in ProbeAnswers, ch \in ProbeAnswers :
          LET r == FindHyperscan(cfg, hs, ch) IN
          /\ emitted' = emitted \o r.out
          /\ probes' = probes \o r.probed
          /\ incDir' = IF r.ok THEN r.path ELSE "none"
          /\ ran' = Append(ran, Step("find_hyperscan", r.ok))
          /\ bpc' = IF r.ok THEN "found" ELSE "failed"
    /\ UNCHANGED << cfg, errVars, platVars >>

\* Which generate_binding the cfg attributes select: bindgen or a copy of the
\* checked-in file.
UsesBindgen(c) == c.gen \/ ~c.ptr64

BindingDirectives(c, header) ==
    IF UsesBindgen(c)
    THEN << Directive("warning", "generating raw binding file"),
            Directive("rerun-if-changed", header) >>
    ELSE << >>

\* A main that goes on to the next step whatever generate_binding returned.
AfterBindingIgnoresError(c, ok) ==
    IF c.chimera THEN "bound" ELSE "done"

\* Where main goes after generate_binding(..)? returned.
AfterBinding(c, ok) ==
    IF ~ok THEN "failed"
    ELSE IF c.chimera THEN "bound"
    ELSE "done"

\* main: env::var("OUT_DIR")? and generate_binding(&inc_dir, &out_dir)?
MainGenerateBinding ==
    /\ bpc = "found"
    /\ IF ~cfg.outDirSet
          THEN /\ bpc' = "failed"
               /\ UNCHANGED << emitted, ran >>
          ELSE \E ok \in BOOLEAN :
                  /\ emitted' = emitted \o BindingDirectives(cfg, "hs.h")
                  /\ ran' = Append(ran, Step("generate_binding", ok))
                  /\ bpc' = AfterBinding(cfg, ok)
    /\ UNCHANGED << cfg, probes, incDir, errVars, platVars >>

\* main: if cfg!(feature = "chimera") { generate_chimera_binding(..)? }
MainGenerateChimeraBinding ==
    /\ bpc = "bound"
    /\ \E ok \in BOOLEAN :
          /\ emitted' = emitted \o BindingDirectives(cfg, "ch.h")
          /\ ran' = Append(ran, Step("generate_chimera_binding", ok))
          /\ bpc' = IF ok THEN "done" ELSE "failed"
    /\ UNCHANGED << cfg, probes, incDir, errVars, platVars >>

(***************************************************************************)
(* The three specifications.                                               *)
(***************************************************************************)
\* No conversion call made, no Platform constructed, build script not run.
Init ==
    /\ call = NoCall
    /\ prevCall = NoCall
    /\ heap = [p \in Ptrs |-> Unallocated]
    /\ nextPtr = 1
    /\ owners = {}
    /\ freeCalls = [p \in Ptrs |-> 0]
    /\ lastCtor = NoCtor
    /\ bpc = "idle"
    /\ cfg = CHOOSE c \in Configs : TRUE
    /\ emitted = << >>
    /\ probes = << >>
    /\ incDir = "none"
    /\ ran = << >>

\* The build script is started, in any configuration.
BuildInit ==
    /\ call = NoCall
    /\ prevCall = NoCall
    /\ heap = [p \in Ptrs |-> Unallocated]
    /\ nextPtr = 1
    /\ owners = {}
    /\ freeCalls = [p \in Ptrs |-> 0]
    /\ lastCtor = NoCtor
    /\ bpc = "start"
    /\ cfg \in Configs
    /\ emitted = << >>
    /\ probes = << >>
    /\ incDir = "none"
    /\ ran = << >>

ErrorsNext == CallFrom \/ CallOk \/ CallMap \/ CallAndThen \/ CallExpect

PlatformNext == PlatformNew \/ PlatformHost \/ DropPlatform

BuildNext == MainFind \/ MainGenerateBinding \/ MainGenerateChimeraBinding

SpecErrors == Init /\ [][ErrorsNext]_vars

SpecPlatform == Init /\ [][PlatformNext]_vars

SpecBuild == BuildInit /\ [][BuildNext]_vars

(***************************************************************************)
(* Properties of the error translation, under SpecErrors.                  *)
(***************************************************************************)

\* The variant each recognized code is documented to translate to.
NamedVariant ==
    [c \in RecognizedCodes |->
        CASE c = HS_INVALID -> "Invalid"
          [] c = HS_NOMEM -> "NoMem"
          [] c = HS_SCAN_TERMINATED -> "ScanTerminated"
          [] c = HS_DB_VERSION_ERROR -> "DbVersionError"
          [] c = HS_DB_PLATFORM_ERROR -> "DbPlatformError"
          [] c = HS_DB_MODE_ERROR -> "DbModeError"
          [] c = HS_BAD_ALIGN -> "BadAlign"
          [] c = HS_BAD_ALLOC -> "BadAlloc"
          [] c = HS_SCRATCH_IN_USE -> "ScratchInUse"
          [] c = HS_ARCH_ERROR -> "ArchError"
          [] c = HS_INSUFFICIENT_SPACE -> "InsufficientSpace"
          [] c = HS_UNKNOWN_ERROR -> "UnknownError"]

\* C1: HsError::from returns, for each of the twelve recognized codes, the
\* variant of the same name, and two calls with distinct recognized codes
\* never return the same variant.
C1_RecognizedCodesMapToNamedVariants ==
    /\ (call.fn = "from" /\ call.code \in RecognizedCodes)
           => call.hs = Variant(NamedVariant[call.code])
    /\ (/\ call.fn = "from" /\ prevCall.fn = "from"
        /\ call.code \in RecognizedCodes /\ prevCall.code \in RecognizedCodes
        /\ call.code # prevCall.code)
           => call.hs # prevCall.hs
    /\ Cardinality(RecognizedCodes) = 12

C1_Witness ==
    /\ call.fn = "from" /\ call.code = HS_DB_MODE_ERROR
    /\ prevCall.fn = "from" /\ prevCall.code = HS_DB_PLATFORM_ERROR

\* C2: for every non-zero code outside the recognized set the translation
\* returns Code(raw) with raw equal to the code, through from and through
\* ok(); from returns a value of the enum, without panicking, for every code.
C2_UnrecognizedCodesKeepRawValue ==
    /\ (/\ call.fn = "from"
        /\ call.code # HS_SUCCESS /\ call.code \notin RecognizedCodes)
           => call.hs.kind = "Code" /\ call.hs.raw = call.code
    /\ (/\ call.fn = "ok"
        /\ call.code # HS_SUCCESS /\ call.code \notin RecognizedCodes)
           => /\ call.res.tag = "Err"
              /\ call.res.err.fail.kind = "Code"
              /\ call.res.err.fail.raw = call.code
    /\ call.fn = "from" => call.hs.kind \in HsErrorKinds /\ ~call.panicked

C2_Witness ==
    /\ call.fn = "from" /\ call.code > 0
    /\ prevCall.fn = "ok" /\ prevCall.code < HS_UNKNOWN_ERROR

\* C3: ok() returns Ok(()) exactly for the success code 0; for every other
\* code it returns Err carrying the error a call of HsError::from returned
\* for that code.
C3_OkIffSuccessCode ==
    /\ call.fn = "ok" =>
          /\ call.res.tag = "Ok" <=> call.code = 0
          /\ call.res.tag = "Ok" => call.res = OkOf("unit")
          /\ call.res.tag \in { "Ok", "Err" }
    /\ (/\ call.fn = "ok" /\ call.code # 0
        /\ prevCall.fn = "from" /\ prevCall.code = call.code)
           => call.res = ErrOf(IntoError(prevCall.hs))

C3_Witness ==
    /\ call.fn = "ok" /\ call.code = 1 /\ call.res.tag = "Err"
    /\ prevCall.fn = "from" /\ prevCall.code = 1

\* C4 as stated: the translation of HS_COMPILER_ERROR, made without a
\* compile-error detail object (from and ok() take none), is UnknownError.
C4_CompilerErrorIsUnknownError ==
    /\ (call.fn = "from" /\ call.code = HS_COMPILER_ERROR)
           => call.hs = Variant("UnknownError")
    /\ (call.fn = "ok" /\ call.code = HS_COMPILER_ERROR)
           => call.res = ErrOf(IntoError(Variant("UnknownError")))

\* C4 as amended: the translation of HS_COMPILER_ERROR, made without a
\* compile-error detail object, is the catch-all Code(HS_COMPILER_ERROR).
C4_CompilerErrorIsCatchAllCode ==
    /\ (call.fn = "from" /\ call.code = HS_COMPILER_ERROR)
           => call.hs = Code(HS_COMPILER_ERROR)
    /\ (call.fn = "ok" /\ call.code = HS_COMPILER_ERROR)
           => call.res = ErrOf(IntoError(Code(HS_COMPILER_ERROR)))

C4_Witness ==
    /\ call.fn = "ok" /\ call.code = HS_COMPILER_ERROR
    /\ prevCall.fn = "from" /\ prevCall.code = HS_COMPILER_ERROR

\* Two calls of the same entry point with the same code returned the same.
SameOutcomeOnEveryCall ==
    (/\ call.fn \in { "from", "ok" }
     /\ prevCall.fn = call.fn /\ prevCall.code = call.code)
        => call.hs = prevCall.hs /\ call.res = prevCall.res

\* Every call of from yields an HsError and every call of ok() a Result.
EveryCodeHasAnOutcome ==
    /\ call.fn = "from" => call.hs.kind \in HsErrorKinds
    /\ call.fn = "ok" => call.res.tag \in { "Ok", "Err" }

\* C5 as stated: the mapping is total and deterministic, and neither
\* HsError::from nor ok() yields an HsError value when the code is 0.
C5_NoErrorForSuccessFromEitherEntry ==
    /\ SameOutcomeOnEveryCall
    /\ EveryCodeHasAnOutcome
    /\ (call.fn = "ok" /\ call.code = 0) => call.res.tag = "Ok"
    /\ (call.fn = "from" /\ call.code = 0) => call.hs.kind \notin HsErrorKinds

\* C5 as amended: the mapping is total and deterministic, and ok() never
\* yields an HsError value when the code is 0; HsError::from, which returns
\* an HsError for every code, returns Code(0) for 0.
C5_NoErrorForSuccessFromOk ==
    /\ SameOutcomeOnEveryCall
    /\ EveryCodeHasAnOutcome
    /\ (call.fn = "ok" /\ call.code = 0) => call.res = OkOf("unit")
    /\ (call.fn = "from" /\ call.code = 0) => call.hs = Code(0)

C5_Witness ==
    /\ call.fn = "ok" /\ call.code = 0
    /\ prevCall.fn = "ok" /\ prevCall.code = 0

\* C9: map(op) and and_then(op) run op exactly once when the code is the
\* success code and never otherwise; for another code the result is Err of
\* the translation of that code; on success and_then returns what op
\* returned (and map wraps what op returned in Ok).
C9_ContinuationRunsOnlyOnSuccess ==
    call.fn \in { "map", "and_then" } =>
        /\ call.code = HS_SUCCESS => call.opRuns = 1
        /\ call.code # HS_SUCCESS =>
              /\ call.opRuns = 0
              /\ call.res = ErrOf(IntoError(HsErrorFrom(call.code)))
        /\ (call.fn = "and_then" /\ call.code = HS_SUCCESS)
              => call.res = call.op
        /\ (call.fn = "map" /\ call.code = HS_SUCCESS)
              => call.res = OkOf(call.op)

C9_Witness ==
    /\ call.fn = "and_then" /\ call.code = HS_SUCCESS
    /\ call.opRuns = 1 /\ call.res.tag = "Err"
    /\ prevCall.fn = "map" /\ prevCall.code = HS_ARCH_ERROR
    /\ prevCall.opRuns = 0

(***************************************************************************)
(* Properties of the platform descriptor, under SpecPlatform.              *)
(***************************************************************************)

\* The native integer of each tuning family and the native bit of each flag.
NativeTune ==
    [t \in Tune |->
        CASE t = "Generic" -> HS_TUNE_FAMILY_GENERIC
          [] t = "SandyBridge" -> HS_TUNE_FAMILY_SNB
          [] t = "IvyBridge" -> HS_TUNE_FAMILY_IVB
          [] t = "Haswell" -> HS_TUNE_FAMILY_HSW
          [] t = "Silvermont" -> HS_TUNE_FAMILY_SLM
          [] t = "Broadwell" -> HS_TUNE_FAMILY_BDW
          [] t = "Skylake" -> HS_TUNE_FAMILY_SKL
          [] t = "SkylakeServer" -> HS_TUNE_FAMILY_SKX
          [] t = "Goldmont" -> HS_TUNE_FAMILY_GLM]

NativeBits(fs) ==
    (IF "AVX2" \in fs THEN HS_CPU_FEATURES_AVX2 ELSE 0)
        + (IF "AVX512" \in fs THEN HS_CPU_FEATURES_AVX512 ELSE 0)

\* C6: the descriptor Platform::new(t, f) builds stores t's native integer
\* in tune and f's raw bits in cpu_features, so that reading the fields back
\* gives t and f and nothing else; the reserved fields are 0; distinct Tune
\* values store distinct integers.
C6_NewStoresExactlyWhatWasSupplied ==
    (lastCtor.fn = "new" /\ lastCtor.ptr \in owners) =>
        LET info == heap[lastCtor.ptr].info IN
        /\ heap[lastCtor.ptr].state = "live"
        /\ info.tune = NativeTune[lastCtor.tune]
        /\ info.cpu_features = NativeBits(lastCtor.features)
        /\ \A t \in Tune : NativeTune[t] = info.tune <=> t = lastCtor.tune
        /\ \A f \in CpuFeatureFlags :
              BitsContain(info.cpu_features, f) <=> f \in lastCtor.features
        /\ info.reserved1 = 0
        /\ info.reserved2 = 0

C6_Witness ==
    /\ lastCtor.fn = "new" /\ lastCtor.ptr \in owners
    /\ lastCtor.tune = "Goldmont"
    /\ lastCtor.features = { "AVX2", "AVX512" }

\* C7: free_platform_info has been invoked exactly once on the address of
\* every constructed handle whose owner was dropped, never on the address of
\* a handle still owned, never twice on an address, and never on an address
\* no construction allocated; a failed construction has no address.
C7_ReleasedExactlyOncePerHandle ==
    /\ \A p \in Ptrs :
          /\ freeCalls[p] <= 1
          /\ p \in owners => p < nextPtr /\ freeCalls[p] = 0
                                /\ heap[p].state = "live"
          /\ (p < nextPtr /\ p \notin owners)
                => freeCalls[p] = 1 /\ heap[p].state = "freed"
          /\ p >= nextPtr => freeCalls[p] = 0 /\ heap[p].state = "unalloc"
    /\ lastCtor.tag = "Err" => lastCtor.ptr = NULL
    /\ lastCtor.tag = "Ok" => lastCtor.ptr \in Ptrs /\ lastCtor.ptr < nextPtr

C7_Witness ==
    /\ lastCtor.fn = "host" /\ lastCtor.tag = "Err"
    /\ freeCalls[1] = 1
    /\ 2 \in owners

\* C8: a call of Platform::host whose native status is not the success code
\* returns the translation of that status as Err, allocates nothing and adds
\* no owner; one whose status is the success code allocates one cell, which
\* holds what the native call wrote, and returns the one Platform that owns
\* it.
C8_HostChecksStatusBeforeUse ==
    [][(lastCtor' # lastCtor /\ lastCtor'.fn = "host") =>
          IF lastCtor'.status # HS_SUCCESS
          THEN /\ lastCtor'.tag = "Err"
               /\ lastCtor'.err = IntoError(HsErrorFrom(lastCtor'.status))
               /\ lastCtor'.ptr = NULL
               /\ UNCHANGED << heap, nextPtr, owners, freeCalls >>
          ELSE /\ lastCtor'.tag = "Ok"
               /\ lastCtor'.ptr = nextPtr
               /\ nextPtr' = nextPtr + 1
               /\ owners' = owners \cup { lastCtor'.ptr }
               /\ lastCtor'.ptr \notin owners
               /\ heap' = [heap EXCEPT
                              ![lastCtor'.ptr] = Live(lastCtor'.populated)]
               /\ UNCHANGED freeCalls]_vars

C8_Witness ==
    /\ lastCtor.fn = "host" /\ lastCtor.tag = "Err"
    /\ lastCtor.status = HS_ARCH_ERROR
    /\ lastCtor.err = IntoError(Variant("ArchError"))
    /\ nextPtr = 2 /\ owners = { 1 }

(***************************************************************************)
(* Properties of the build script, under SpecBuild.                        *)
(***************************************************************************)
LinkSearchAt == { i \in DOMAIN emitted : emitted[i].kind = "rustc-link-search" }

LinkLibAt == { i \in DOMAIN emitted : emitted[i].kind = "rustc-link-lib" }

FindHasRun == Len(ran) >= 1 /\ ran[1].step = "find_hyperscan"

RootUsable == IsDir(cfg.rootKind) /\ IsDir(cfg.libKind)

\* The statement of C10, for the runs in which rootGiven holds.
BuildOrder(rootGiven) ==
    /\ (rootGiven /\ FindHasRun /\ ~RootUsable) =>
          /\ ~ran[1].ok
          /\ bpc = "failed"
          /\ LinkSearchAt = {} /\ LinkLibAt = {}
          /\ probes = << >>
    /\ (rootGiven /\ FindHasRun /\ RootUsable) =>
          /\ ran[1].ok
          /\ incDir = RootIncPath
          /\ probes = << >>
          /\ LinkSearchAt # {} /\ LinkLibAt # {}
          /\ \A j \in LinkLibAt : \A i \in LinkSearchAt : i < j
    /\ \A i \in DOMAIN ran :
          /\ ran[i].step = "generate_binding"
                => \E j \in 1 .. i - 1 :
                      ran[j].step = "find_hyperscan" /\ ran[j].ok
          /\ ran[i].step = "generate_chimera_binding"
                => \E j \in 1 .. i - 1 :
                      ran[j].step = "generate_binding" /\ ran[j].ok

\* C10 as stated: whenever HYPERSCAN_ROOT is set, find_hyperscan fails
\* without a link directive and without a pkg-config probe if the root or
\* its lib is no directory, and otherwise emits link-search before every
\* link-lib and returns <root>/include/hs; binding generation runs only
\* after find_hyperscan succeeded and the chimera step only after the main
\* binding step succeeded.
C10_WheneverRootIsSet == BuildOrder(cfg.rootVar # "unset")

\* C10 as amended: the same, whenever HYPERSCAN_ROOT is set to a value that
\* is valid Unicode (a value that is not is treated like an unset variable
\* and pkg-config is probed).
C10_WheneverRootIsSetToUnicode == BuildOrder(cfg.rootVar = "unicode")

C10_Witness ==
    /\ bpc = "done" /\ cfg.rootVar = "unicode" /\ cfg.chimera /\ cfg.static
    /\ Len(ran) = 3
    /\ Cardinality(LinkLibAt) = 4

====
